---- MODULE Spec2Model ----
(***************************************************************************)
(* Yield-curve construction and persistence of giuse88/gilts.              *)
(*                                                                         *)
(* Modelled code: src/yield_curve.py (class YieldCurve), the               *)
(* /api/yield-curve handler of src/app.py and BondDatabase.load_csv of     *)
(* src/bond_data.py, which is the only writer of the bonds table.          *)
(*                                                                         *)
(* Conventions.                                                            *)
(*  - A date ("YYYY-MM-DD" text in the database) is its day number; the    *)
(*    text order of ISO dates is the order of the day numbers.             *)
(*  - A float is the exact rational [n, d] it approximates (d > 0, lowest  *)
(*    terms); NaN is [n |-> 0, d |-> 0].  Equality of two computed         *)
(*    years_to_maturity (days / 365.25) and their comparison with a        *)
(*    standard tenor agree with the exact rationals, because the division  *)
(*    is correctly rounded and every standard tenor is a float.            *)
(*  - The value of scipy's cubic interp1d is not computed: it is the term  *)
(*    [cub |-> <<knots, t>>], equal to another value only when the knots   *)
(*    and the abscissa are the same.                                       *)
(*  - scipy.interpolate.interp1d(kind='linear') accepts a single point     *)
(*    (its minimum size is 1) and then evaluates to NaN (0/0 slope).       *)
(*  - In Spec a handler runs to completion as one action; in SpecRace the   *)
(*    /api/yield-curve handler is split at its database calls.  The        *)
(*    inserts of one save_yield_curve or load_csv call run in sqlite3's    *)
(*    implicit transaction, committed by conn.commit() or dropped with     *)
(*    the connection.                                                      *)
(*  - SQLite's LIKE ignores ASCII case.                                    *)
(***************************************************************************)
EXTENDS Integers, Sequences, FiniteSets, TLC

VARIABLES bonds, yield_curves, last, prev_curves, loads, writes, req

vars == <<bonds, yield_curves, last, prev_curves, loads, writes, req>>

\* Bounds of the model: how many CSV loads and how many successful calls of
\* save_yield_curve one behaviour holds, and the latest statement of a save
\* a storage fault may strike.
MaxLoads == 2
MaxWrites == 2
MaxFault == 3

----------------------------------------------------------------------------
(* Rational arithmetic standing for float arithmetic.                      *)

Abs(i) == IF i < 0 THEN -i ELSE i

RECURSIVE GCD(_, _)
GCD(a, b) == IF b = 0 THEN a ELSE GCD(b, a % b)

NoKnots == <<>>

NaN == [n |-> 0, d |-> 0, cub |-> NoKnots]

Rat(n, d) ==
    IF d = 0 THEN NaN
    ELSE LET g == GCD(Abs(n), Abs(d))
             s == IF d < 0 THEN -1 ELSE 1
         IN [n |-> (s * n) \div g, d |-> (s * d) \div g, cub |-> NoKnots]

IsNaN(a) == a.d = 0 /\ a.cub = NoKnots

RAdd(a, b) == IF a.d = 0 \/ b.d = 0 THEN NaN ELSE Rat(a.n * b.d + b.n * a.d, a.d * b.d)
RSub(a, b) == IF a.d = 0 \/ b.d = 0 THEN NaN ELSE Rat(a.n * b.d - b.n * a.d, a.d * b.d)
RMul(a, b) == IF a.d = 0 \/ b.d = 0 THEN NaN ELSE Rat(a.n * b.n, a.d * b.d)
\* x / 0 only arises as 0 / 0 (the slope of a one-point interpolant).
RDiv(a, b) == IF a.d = 0 \/ b.d = 0 \/ b.n = 0 THEN NaN ELSE Rat(a.n * b.d, a.d * b.n)
RLe(a, b) == a.n * b.d <= b.n * a.d
RLt(a, b) == a.n * b.d < b.n * a.d

\* int(x): truncation toward zero (x >= 0 here).
Trunc(a) == a.n \div a.d

----------------------------------------------------------------------------
(* SQL NULL / Python None, and the values of a nullable column.            *)

NULL == [null |-> TRUE, v |-> 0, r |-> Rat(0, 1)]
DateVal(day) == [null |-> FALSE, v |-> day, r |-> Rat(0, 1)]
NumVal(q) == [null |-> FALSE, v |-> 0, r |-> q]

----------------------------------------------------------------------------
(* The observation source: table bonds, written by BondDatabase.load_csv.  *)

\* The two business dates of the model (day numbers) and the absent
\* ?date= parameter of a request.
DateA == 0
DateB == 1
BusinessDates == {DateA, DateB}
NoDate == -1

\* A CSV field as read by csv.DictReader.
CsvDate(day) == [kind |-> "mdy", v |-> day, r |-> Rat(0, 1)]
CsvNum(q) == [kind |-> "num", v |-> 0, r |-> q]
CsvEmpty == [kind |-> "empty", v |-> 0, r |-> Rat(0, 1)]
CsvNA == [kind |-> "na", v |-> 0, r |-> Rat(0, 1)]
CsvGarbage == [kind |-> "garbage", v |-> 0, r |-> Rat(0, 1)]

\* parse_date: M/D/YYYY text to ISO text, None for empty or malformed text.
parse_date(f) == IF f.kind = "mdy" THEN DateVal(f.v) ELSE NULL

\* parse_number: float(value), None for "N/A", empty or malformed text.
parse_number(f) == IF f.kind = "num" THEN NumVal(f.r) ELSE NULL

CsvRow(isin, date, type, maturity, yld) ==
    [ISIN |-> isin, Date |-> date, Type |-> type, Maturity |-> maturity, Yield |-> yld]

GB1 == <<"G", "B", "1">>
GB2 == <<"G", "B", "2">>
GB3 == <<"G", "B", "3">>
GB4 == <<"G", "B", "4">>
gb5 == <<"g", "b", "5">>
US1 == <<"U", "S", "1">>

\* The CSV files a load may be given.  Maturities are day numbers: 400,
\* 500, 800, 1200 and 4000 days lie between standard tenors, 7305 days after
\* DateA is exactly 20 years (7305 / 365.25).
CsvFiles ==
    { \* DateA: four gilts of distinct maturities and a foreign bond
      << CsvRow(GB1, CsvDate(DateA), "Conventional", CsvDate(400), CsvNum(Rat(4, 1))),
         CsvRow(GB2, CsvDate(DateA), "Conventional", CsvDate(1200), CsvNum(Rat(2, 1))),
         CsvRow(GB3, CsvDate(DateA), "Bills", CsvDate(4000), CsvNum(Rat(3, 1))),
         CsvRow(GB4, CsvDate(DateA), "Conventional", CsvDate(7305), CsvNum(Rat(5, 1))),
         CsvRow(US1, CsvDate(DateA), "Conventional", CsvDate(9000), CsvNum(Rat(9, 1))) >>,
      \* DateA: the same gilts re-priced, two of them now sharing a maturity,
      \* the long end no longer eligible
      << CsvRow(GB1, CsvDate(DateA), "Conventional", CsvDate(400), CsvNum(Rat(1, 1))),
         CsvRow(GB2, CsvDate(DateA), "Conventional", CsvDate(800), CsvNum(Rat(3, 1))),
         CsvRow(GB3, CsvDate(DateA), "Conventional", CsvDate(800), CsvNum(Rat(5, 1))),
         CsvRow(GB4, CsvDate(DateA), "Index-linked", CsvDate(7305), CsvNum(Rat(5, 1))) >>,
      \* DateA: two gilts sharing one maturity of exactly 20 years (loaded
      \* after the first file, three gilts share it)
      << CsvRow(GB1, CsvDate(DateA), "Conventional", CsvDate(7305), CsvNum(Rat(2, 1))),
         CsvRow(GB2, CsvDate(DateA), "Conventional", CsvDate(7305), CsvNum(Rat(4, 1))) >>,
      \* DateB: two usable gilts 399 and 499 days out (no standard tenor lies
      \* between them) and one whose maturity does not parse
      << CsvRow(GB1, CsvDate(DateB), "Conventional", CsvDate(400), CsvNum(Rat(2, 1))),
         CsvRow(GB2, CsvDate(DateB), "Conventional", CsvDate(500), CsvNum(Rat(4, 1))),
         CsvRow(GB3, CsvDate(DateB), "Bills", CsvGarbage, CsvNum(Rat(4, 1))) >>,
      \* DateB: a gilt maturing on the business date
      << CsvRow(GB2, CsvDate(DateB), "Conventional", CsvDate(DateB), CsvNum(Rat(4, 1))) >>,
      \* DateB: a gilt with its ISIN in lower case, a longer one and one
      \* without a yield
      << CsvRow(gb5, CsvDate(DateB), "Conventional", CsvDate(1200), CsvNum(Rat(3, 1))),
         CsvRow(GB2, CsvDate(DateB), "Bills", CsvDate(4000), CsvNum(Rat(5, 1))),
         CsvRow(GB3, CsvDate(DateB), "Conventional", CsvDate(9000), CsvNA) >>,
      \* a file with a row without a business date
      << CsvRow(GB4, CsvDate(DateB), "Conventional", CsvDate(4000), CsvNum(Rat(3, 1))),
         CsvRow(GB3, CsvEmpty, "Conventional", CsvDate(4000), CsvNum(Rat(3, 1))) >> }

\* INSERT OR REPLACE INTO bonds: the primary key is (isin, business_date).
InsertOrReplaceBond(table, row) ==
    {b \in table : ~(b.isin = row.isin /\ b.business_date = row.business_date)}
        \cup {row}

BondOfCsv(c) ==
    [isin |-> c.ISIN, business_date |-> parse_date(c.Date).v, type |-> c.Type,
     maturity |-> parse_date(c.Maturity), yield |-> parse_number(c.Yield)]

RECURSIVE InsertRows(_, _, _)
InsertRows(table, file, i) ==
    IF i > Len(file) THEN table
    ELSE InsertRows(InsertOrReplaceBond(table, BondOfCsv(file[i])), file, i + 1)

\* load_csv: every row of the file in one transaction; a row whose business
\* date does not parse violates NOT NULL and the exception leaves the
\* transaction uncommitted.
load_csv(table, file) ==
    IF \E i \in 1..Len(file) : parse_date(file[i].Date).null
    THEN table
    ELSE InsertRows(table, file, 1)

----------------------------------------------------------------------------
(* Observation Filter: YieldCurve.get_bond_data_for_curve.                 *)

\* isin LIKE 'GB%' (SQLite's LIKE ignores ASCII case).
Upper(c) == IF c = "g" THEN "G" ELSE IF c = "b" THEN "B" ELSE c
IsinLikeGB(isin) == Len(isin) >= 2 /\ Upper(isin[1]) = "G" /\ Upper(isin[2]) = "B"

\* The WHERE clause shared by get_bond_data_for_curve and
\* check_bond_data_exists.
SqlEligible(table, business_date) ==
    {b \in table : /\ b.business_date = business_date
                   /\ ~b.yield.null
                   /\ ~b.maturity.null
                   /\ IsinLikeGB(b.isin)
                   /\ b.type \in {"Bills", "Conventional"}}

\* calculate_days_to_maturity: (mdate - bdate).days; every maturity stored
\* by load_csv is ISO text, so strptime succeeds.
calculate_days_to_maturity(business_date, maturity) == maturity.v - business_date

\* days_to_maturity / 365.25
YearsOfDays(days) == Rat(4 * days, 1461)

\* Faulty variant of the days filter: a maturity on the business date passes.
UsableBond_on_or_after(b, business_date) ==
    calculate_days_to_maturity(business_date, b.maturity) >= 0

\* if days_to_maturity and days_to_maturity > 0
UsableBond(b, business_date) ==
    LET days == calculate_days_to_maturity(business_date, b.maturity)
    IN days # 0 /\ days > 0

\* The orders in which cursor.fetchall() may return the rows S under
\* ORDER BY maturity: rows of equal maturity come in an unspecified order.
RECURSIVE FetchOrders(_)
FetchOrders(S) ==
    IF S = {} THEN {<<>>}
    ELSE UNION {{<<b>> \o q : q \in FetchOrders(S \ {b})} :
                   b \in {m \in S : \A w \in S : m.maturity.v <= w.maturity.v}}

RECURSIVE FilterUsable(_, _, _)
FilterUsable(rows, business_date, i) ==
    IF i > Len(rows) THEN <<>>
    ELSE LET b == rows[i]
             days == calculate_days_to_maturity(business_date, b.maturity)
             rest == FilterUsable(rows, business_date, i + 1)
         IN IF UsableBond(b, business_date)
            THEN <<[isin |-> b.isin, days_to_maturity |-> days,
                    years_to_maturity |-> YearsOfDays(days),
                    yield |-> b.yield.r]>> \o rest
            ELSE rest

\* get_bond_data_for_curve, given the order the query returned its rows in.
get_bond_data_for_curve(rows, business_date) == FilterUsable(rows, business_date, 1)

\* The results get_bond_data_for_curve can return in the current state.
BondDataFor(table, business_date) ==
    {get_bond_data_for_curve(q, business_date) :
        q \in FetchOrders(SqlEligible(table, business_date))}

\* Faulty variant of the probe: it counts the rows the filter keeps.
check_bond_data_exists_usable(table, business_date) ==
    Cardinality({b \in SqlEligible(table, business_date) :
                    UsableBond(b, business_date)}) > 0

\* check_bond_data_exists: COUNT(*) > 0 over the same WHERE clause.
check_bond_data_exists(table, business_date) ==
    Cardinality(SqlEligible(table, business_date)) > 0

----------------------------------------------------------------------------
(* YieldCurve.generate_yield_curve.                                        *)

\* unique_data after the loop over zip(maturities, yields) from position i:
\* a set of [mat, yld] with one entry per key.
RECURSIVE dedup(_, _, _)
dedup(bnds, i, unique_data) ==
    IF i > Len(bnds) THEN unique_data
    ELSE LET mat == bnds[i].years_to_maturity
             yld == bnds[i].yield
         IN IF ~\E u \in unique_data : u.mat = mat
            THEN dedup(bnds, i + 1, unique_data \cup {[mat |-> mat, yld |-> yld]})
            ELSE LET old == CHOOSE u \in unique_data : u.mat = mat
                 IN dedup(bnds, i + 1,
                          (unique_data \ {old}) \cup
                          {[mat |-> mat, yld |-> RDiv(RAdd(old.yld, yld), Rat(2, 1))]})

\* sorted(unique_data.keys()) paired with their yields.
RECURSIVE sorted_points(_)
sorted_points(unique_data) ==
    IF unique_data = {} THEN <<>>
    ELSE LET lo == CHOOSE u \in unique_data :
                       \A w \in unique_data : RLe(u.mat, w.mat)
         IN <<lo>> \o sorted_points(unique_data \ {lo})

\* numpy.searchsorted(x, x_new) (side='left'): how many knots lie below x_new.
searchsorted(knots, x_new) ==
    Cardinality({i \in 1..Len(knots) : RLt(knots[i].mat, x_new)})

\* ndarray.clip(lo, hi): hi when lo > hi.
clip(v, lo, hi) == IF lo > hi THEN hi ELSE IF v < lo THEN lo ELSE IF v > hi THEN hi ELSE v

\* x[i] of a numpy array with Python's negative indexing, knots 1-based here.
At(knots, i) == IF i < 0 THEN knots[Len(knots) + i + 1] ELSE knots[i + 1]

\* Faulty variant of the linear interpolant: the yield of the knot below
\* (kind='previous').
interp_previous(knots, x_new) ==
    At(knots, clip(searchsorted(knots, x_new), 1, Len(knots) - 1) - 1).yld

\* interp1d(kind='linear', fill_value='extrapolate')._call_linear
interp_linear(knots, x_new) ==
    LET hi == clip(searchsorted(knots, x_new), 1, Len(knots) - 1)
        lo == hi - 1
        x_lo == At(knots, lo).mat
        x_hi == At(knots, hi).mat
        y_lo == At(knots, lo).yld
        y_hi == At(knots, hi).yld
        slope == RDiv(RSub(y_hi, y_lo), RSub(x_hi, x_lo))
    IN RAdd(RMul(slope, RSub(x_new, x_lo)), y_lo)

\* interp1d(kind='cubic', fill_value='extrapolate'): the spline through the
\* knots at x_new, kept as a term.
interp_cubic(knots, x_new) == [n |-> 0, d |-> 1, cub |-> <<knots, x_new>>]

\* Faulty variant of the tenor list: a 4-year tenor added.
standard_maturities_with_four ==
    << Rat(1, 4), Rat(1, 2), Rat(1, 1), Rat(2, 1), Rat(3, 1), Rat(4, 1), Rat(5, 1),
       Rat(7, 1), Rat(10, 1), Rat(15, 1), Rat(20, 1), Rat(25, 1), Rat(30, 1) >>

\* standard_maturities, in years.
standard_maturities ==
    << Rat(1, 4), Rat(1, 2), Rat(1, 1), Rat(2, 1), Rat(3, 1), Rat(5, 1),
       Rat(7, 1), Rat(10, 1), Rat(15, 1), Rat(20, 1), Rat(25, 1), Rat(30, 1) >>

\* Faulty variant of the range filter: strict bounds.
InRange_strict(min_mat, max_mat, t) == RLt(min_mat, t) /\ RLt(t, max_mat)

\* (standard_maturities >= min_mat) & (standard_maturities <= max_mat)
InRange(min_mat, max_mat, t) == RLe(min_mat, t) /\ RLe(t, max_mat)

\* Faulty variant of the day count: rounded to the nearest integer.
maturity_days_rounded(t) == Trunc(RAdd(RMul(t, Rat(1461, 4)), Rat(1, 2)))

\* (valid_maturities * 365.25).astype(int)
maturity_days_of(t) == Trunc(RMul(t, Rat(1461, 4)))

\* Faulty variant of the method selection: cubic whatever the number of
\* points.
interp_kind_no_fallback(interpolation_method, npoints) ==
    IF interpolation_method = "linear" THEN "linear"
    ELSE IF interpolation_method = "cubic" THEN "cubic" ELSE "error"

\* Faulty variant of the method selection: an unknown method is taken as
\* linear.
interp_kind_default_linear(interpolation_method, npoints) ==
    IF interpolation_method = "cubic"
    THEN (IF npoints >= 4 THEN "cubic" ELSE "linear")
    ELSE "linear"

\* Which interpolant the method selects: "error" for an unsupported method.
interp_kind(interpolation_method, npoints) ==
    IF interpolation_method = "linear" THEN "linear"
    ELSE IF interpolation_method = "cubic"
         THEN (IF npoints >= 4 THEN "cubic" ELSE "linear")
         ELSE "error"

\* Faulty variant of the method tag: the interpolant that was built.
method_tag_of_kind(interpolation_method, kind) == kind

\* 'interpolation_method': interpolation_method, the tag of the returned
\* curve_data.
method_tag(interpolation_method, kind) == interpolation_method

NoCurveData ==
    [business_date |-> NoDate, interpolation_method |-> "",
     raw_data |-> [points |-> <<>>, bond_count |-> 0],
     curve_points |-> <<>>]

\* Faulty variants of the minimum-size check: len(bonds) < 1 and
\* len(bonds) < 3.
insufficient_below_one(bnds) == Len(bnds) < 1
insufficient_below_three(bnds) == Len(bnds) < 3

\* len(bonds) < 2
insufficient(bnds) == Len(bnds) < 2

\* generate_yield_curve on the list get_bond_data_for_curve returned:
\* [err, curve_data], err being "none" or the ValueError raised.
generate_yield_curve(bnds, business_date, interpolation_method) ==
    IF insufficient(bnds)
    THEN [err |-> "insufficient", curve_data |-> NoCurveData]
    ELSE LET knots == sorted_points(dedup(bnds, 1, {}))
             kind == interp_kind(interpolation_method, Len(knots))
         IN IF kind = "error"
            THEN [err |-> "unsupported", curve_data |-> NoCurveData]
            ELSE LET min_mat == knots[1].mat
                     max_mat == knots[Len(knots)].mat
                     valid_maturities ==
                         SelectSeq(standard_maturities,
                                   LAMBDA t : InRange(min_mat, max_mat, t))
                     point(t) ==
                         [maturity_years |-> t,
                          maturity_days |-> maturity_days_of(t),
                          yield_rate |-> IF kind = "linear"
                                         THEN interp_linear(knots, t)
                                         ELSE interp_cubic(knots, t)]
                 IN [err |-> "none",
                     curve_data |->
                         [business_date |-> business_date,
                          interpolation_method |-> method_tag(interpolation_method, kind),
                          raw_data |-> [points |-> knots, bond_count |-> Len(bnds)],
                          curve_points |->
                              [i \in 1..Len(valid_maturities) |->
                                  point(valid_maturities[i])]]]

----------------------------------------------------------------------------
(* Curve Store: table yield_curves.  The columns id and created_at are not *)
(* modelled.                                                               *)

CurveRow(business_date, interpolation_method, p) ==
    [business_date |-> business_date, maturity_days |-> p.maturity_days,
     maturity_years |-> p.maturity_years, yield_rate |-> p.yield_rate,
     interpolation_method |-> interpolation_method]

\* Faulty variants of the upsert: a plain INSERT without the UNIQUE
\* constraint, and INSERT OR IGNORE (the old row wins).
InsertCurve_no_unique(table, row) == table \cup {row}
InsertCurve_or_ignore(table, row) ==
    IF \E r \in table : r.business_date = row.business_date
                        /\ r.maturity_days = row.maturity_days
    THEN table
    ELSE table \cup {row}

\* Faulty variant of the upsert: the UNIQUE constraint is on maturity_days
\* alone.
InsertOrReplaceCurve_days_key(table, row) ==
    {r \in table : r.maturity_days # row.maturity_days} \cup {row}

\* INSERT OR REPLACE INTO yield_curves under UNIQUE(business_date, maturity_days).
InsertOrReplaceCurve(table, row) ==
    {r \in table : ~(r.business_date = row.business_date
                     /\ r.maturity_days = row.maturity_days)}
        \cup {row}

\* A row SQLite refuses: a NaN binds as NULL and yield_rate is NOT NULL.
ViolatesNotNull(row) == IsNaN(row.yield_rate)

RECURSIVE ExecuteInserts(_, _, _)
ExecuteInserts(table, curve_data, i) ==
    IF i > Len(curve_data.curve_points) THEN table
    ELSE ExecuteInserts(
             InsertOrReplaceCurve(table,
                 CurveRow(curve_data.business_date, curve_data.interpolation_method,
                          curve_data.curve_points[i])),
             curve_data, i + 1)

\* The statement of a save at which an exception is raised, counting the
\* inserts from 1 and conn.commit() as the one after the last insert: the
\* first insert of a refused row or the statement a storage fault strikes
\* (fault = 0: no storage fault).  0 when no statement raises.
FailsAt(curve_data, fault) ==
    LET n == Len(curve_data.curve_points)
        raising == {i \in 1..n :
                       ViolatesNotNull(CurveRow(curve_data.business_date,
                                                curve_data.interpolation_method,
                                                curve_data.curve_points[i]))}
                   \cup {k \in {fault} : 1 <= k /\ k <= n + 1}
    IN IF raising = {} THEN 0
       ELSE CHOOSE k \in raising : \A j \in raising : k <= j

\* The table as the connection of a save sees it after its first k inserts.
AfterInserts(table, curve_data, k) ==
    ExecuteInserts(table,
                   [curve_data EXCEPT !.curve_points = SubSeq(@, 1, k)], 1)

\* Faulty variant of save_yield_curve: DELETE the date's rows, then insert.
save_yield_curve_delete_first(table, curve_data, fault) ==
    LET at == FailsAt(curve_data, fault)
    IN IF at # 0
       THEN [ok |-> FALSE, table |-> table, executed |-> at - 1]
       ELSE [ok |-> TRUE,
             table |-> ExecuteInserts(
                           {r \in table : r.business_date # curve_data.business_date},
                           curve_data, 1),
             executed |-> Len(curve_data.curve_points)]

\* Faulty variant of save_yield_curve: a connection in autocommit mode, each
\* insert persisted as it runs.
save_yield_curve_autocommit(table, curve_data, fault) ==
    LET at == FailsAt(curve_data, fault)
    IN IF at # 0
       THEN [ok |-> FALSE, table |-> AfterInserts(table, curve_data, at - 1),
             executed |-> at - 1]
       ELSE [ok |-> TRUE, table |-> ExecuteInserts(table, curve_data, 1),
             executed |-> Len(curve_data.curve_points)]

\* save_yield_curve: [ok, table, executed].  The inserts run in the implicit
\* transaction the first of them opens.  An exception is caught and False is
\* returned; conn.commit() was not reached, and the connection is dropped
\* with its transaction, so the inserts that ran (executed of them) are
\* rolled back.
save_yield_curve(table, curve_data, fault) ==
    LET at == FailsAt(curve_data, fault)
    IN IF at # 0
       THEN [ok |-> FALSE, table |-> table, executed |-> at - 1]
       ELSE [ok |-> TRUE, table |-> ExecuteInserts(table, curve_data, 1),
             executed |-> Len(curve_data.curve_points)]

NotFound ==
    [found |-> FALSE, business_date |-> NoDate, interpolation_method |-> "",
     curve_points |-> <<>>]

\* SELECT ... WHERE business_date = ? ORDER BY maturity_days
RECURSIVE OrderByMaturityDays(_)
OrderByMaturityDays(rows) ==
    IF rows = {} THEN <<>>
    ELSE LET lo == CHOOSE r \in rows : \A w \in rows : r.maturity_days <= w.maturity_days
         IN <<lo>> \o OrderByMaturityDays(rows \ {lo})

\* get_yield_curve: None (NotFound) when the query returns no row.
get_yield_curve(table, business_date) ==
    LET results == OrderByMaturityDays({r \in table : r.business_date = business_date})
    IN IF results = <<>> THEN NotFound
       ELSE [found |-> TRUE,
             business_date |-> business_date,
             interpolation_method |-> results[1].interpolation_method,
             curve_points |->
                 [i \in 1..Len(results) |->
                     [maturity_days |-> results[i].maturity_days,
                      maturity_years |-> results[i].maturity_years,
                      yield_rate |-> results[i].yield_rate]]]

\* SELECT DISTINCT business_date ... ORDER BY business_date DESC
RECURSIVE Descending(_)
Descending(S) ==
    IF S = {} THEN <<>>
    ELSE LET hi == CHOOSE x \in S : \A y \in S : y <= x
         IN <<hi>> \o Descending(S \ {hi})

\* Faulty variant of get_available_curve_dates: SELECT without DISTINCT, one
\* entry per row.
RECURSIVE DatesOfRows(_)
DatesOfRows(rows) ==
    IF rows = {} THEN <<>>
    ELSE LET hi == CHOOSE r \in rows : \A w \in rows : w.business_date <= r.business_date
         IN <<hi.business_date>> \o DatesOfRows(rows \ {hi})

get_available_curve_dates_no_distinct(table) == DatesOfRows(table)

get_available_curve_dates(table) == Descending({r.business_date : r \in table})

----------------------------------------------------------------------------
(* Request handlers.                                                       *)

Methods == {"linear", "cubic", "quadratic"}

\* The storage faults a save may meet: none, or one at its k-th statement.
Faults == 0..MaxFault

\* What a handler did: its return value or status, the curve it returned,
\* the curve_data it generated, whether generation ran, whether
\* save_yield_curve returned True, how many inserts of the save ran, and
\* table yield_curves afterwards.
Outcome(ret, curve, gen, generated, saved, executed, table) ==
    [ret |-> ret, curve |-> curve, gen |-> gen, generated |-> generated,
     saved |-> saved, executed |-> executed, table |-> table]

\* Faulty variant of the handler: no look-up of an existing curve before
\* generating.
api_get_yield_curve_always_generate(curves, bnds, date, fault) ==
    IF date = NoDate
    THEN Outcome("400 date required", NotFound, NoCurveData, FALSE, FALSE, 0, curves)
    ELSE LET g == generate_yield_curve(bnds, date, "linear")
             sv == save_yield_curve(curves, g.curve_data, fault)
             again == get_yield_curve(sv.table, date)
         IN IF g.err # "none"
            THEN Outcome("500 unable to generate", NotFound, NoCurveData,
                         TRUE, FALSE, 0, curves)
            ELSE IF ~sv.ok
            THEN Outcome("500 failed to generate", NotFound, g.curve_data,
                         TRUE, FALSE, sv.executed, sv.table)
            ELSE IF again.found
            THEN Outcome("200", again, g.curve_data, TRUE, TRUE, sv.executed, sv.table)
            ELSE Outcome("404 no data", NotFound, g.curve_data, TRUE, TRUE, sv.executed, sv.table)

\* Faulty variant of the handler: the return value of save_yield_curve is
\* not looked at, the generated points are the response when the read-back
\* finds nothing.
api_get_yield_curve_unchecked_save(curves, bnds, date, fault) ==
    IF date = NoDate
    THEN Outcome("400 date required", NotFound, NoCurveData, FALSE, FALSE, 0, curves)
    ELSE LET curve == get_yield_curve(curves, date)
         IN IF curve.found
            THEN Outcome("200", curve, NoCurveData, FALSE, FALSE, 0, curves)
            ELSE LET g == generate_yield_curve(bnds, date, "linear")
                     sv == save_yield_curve(curves, g.curve_data, fault)
                     again == get_yield_curve(sv.table, date)
                 IN IF g.err # "none"
                    THEN Outcome("500 unable to generate", NotFound, NoCurveData,
                                 TRUE, FALSE, 0, curves)
                    ELSE IF again.found
                    THEN Outcome("200", again, g.curve_data, TRUE, sv.ok,
                                 sv.executed, sv.table)
                    ELSE Outcome("200",
                                 [found |-> TRUE, business_date |-> date,
                                  interpolation_method |-> "linear",
                                  curve_points |-> g.curve_data.curve_points],
                                 g.curve_data, TRUE, sv.ok, sv.executed, sv.table)

\* app.get_yield_curve, the /api/yield-curve handler (get-or-generate; it
\* takes no method and generates with the default 'linear').  bnds is what
\* get_bond_data_for_curve returns if generation runs.
api_get_yield_curve(curves, bnds, date, fault) ==
    IF date = NoDate
    THEN Outcome("400 date required", NotFound, NoCurveData, FALSE, FALSE, 0, curves)
    ELSE LET curve == get_yield_curve(curves, date)
         IN IF curve.found
            THEN Outcome("200", curve, NoCurveData, FALSE, FALSE, 0, curves)
            ELSE LET g == generate_yield_curve(bnds, date, "linear")
                     sv == save_yield_curve(curves, g.curve_data, fault)
                     again == get_yield_curve(sv.table, date)
                 IN IF g.err # "none"
                    THEN Outcome("500 unable to generate", NotFound, NoCurveData,
                                 TRUE, FALSE, 0, curves)
                    ELSE IF ~sv.ok
                    THEN Outcome("500 failed to generate", NotFound, g.curve_data,
                                 TRUE, FALSE, sv.executed, sv.table)
                    ELSE IF again.found
                    THEN Outcome("200", again, g.curve_data, TRUE, TRUE, sv.executed, sv.table)
                    ELSE Outcome("404 no data", NotFound, g.curve_data, TRUE, TRUE, sv.executed, sv.table)

\* Faulty variant of generate_and_save_yield_curve_for_date: the rows of the
\* date are deleted before generation is tried.
generate_and_save_clear_first(table, curves, bnds, date, method, fault) ==
    LET cleared == {r \in curves : r.business_date # date}
        g == generate_yield_curve(bnds, date, method)
        sv == save_yield_curve(cleared, g.curve_data, fault)
    IN IF ~check_bond_data_exists(table, date)
       THEN Outcome("False", NotFound, NoCurveData, FALSE, FALSE, 0, curves)
       ELSE IF g.err # "none"
       THEN Outcome("False", NotFound, NoCurveData, TRUE, FALSE, 0, cleared)
       ELSE IF ~sv.ok
       THEN Outcome("False", NotFound, g.curve_data, TRUE, FALSE, sv.executed, sv.table)
       ELSE IF Len(g.curve_data.curve_points) = 0
       THEN Outcome("False", NotFound, g.curve_data, TRUE, TRUE, sv.executed, sv.table)
       ELSE Outcome("True", NotFound, g.curve_data, TRUE, TRUE, sv.executed, sv.table)

\* Faulty variant of generate_and_save_yield_curve_for_date: True whenever
\* save_yield_curve returned True, a curve without points included.
generate_and_save_true_on_empty(table, curves, bnds, date, method, fault) ==
    IF ~check_bond_data_exists(table, date)
    THEN Outcome("False", NotFound, NoCurveData, FALSE, FALSE, 0, curves)
    ELSE LET g == generate_yield_curve(bnds, date, method)
             sv == save_yield_curve(curves, g.curve_data, fault)
         IN IF g.err # "none"
            THEN Outcome("False", NotFound, NoCurveData, TRUE, FALSE, 0, curves)
            ELSE IF ~sv.ok
            THEN Outcome("False", NotFound, g.curve_data, TRUE, FALSE, sv.executed, sv.table)
            ELSE Outcome("True", NotFound, g.curve_data, TRUE, TRUE, sv.executed, sv.table)

\* YieldCurve.generate_and_save_yield_curve_for_date (the command line's
\* entry point).  After a successful save it prints min() and max() of the
\* tenors, which raise ValueError on an empty list; the except clause then
\* returns False.
generate_and_save_yield_curve_for_date(table, curves, bnds, date, method, fault) ==
    IF ~check_bond_data_exists(table, date)
    THEN Outcome("False", NotFound, NoCurveData, FALSE, FALSE, 0, curves)
    ELSE LET g == generate_yield_curve(bnds, date, method)
             sv == save_yield_curve(curves, g.curve_data, fault)
         IN IF g.err # "none"
            THEN Outcome("False", NotFound, NoCurveData, TRUE, FALSE, 0, curves)
            ELSE IF ~sv.ok
            THEN Outcome("False", NotFound, g.curve_data, TRUE, FALSE, sv.executed, sv.table)
            ELSE IF Len(g.curve_data.curve_points) = 0
            THEN Outcome("False", NotFound, g.curve_data, TRUE, TRUE, sv.executed, sv.table)
            ELSE Outcome("True", NotFound, g.curve_data, TRUE, TRUE, sv.executed, sv.table)

----------------------------------------------------------------------------
(* The state machine.  last records the call that has just run: its        *)
(* arguments, the list the Observation Filter gave it, what it returned;   *)
(* prev_curves is table yield_curves as it was when that call began.  The  *)
(* record is dropped when the call returns to its caller (Return), and the *)
(* next call starts from there.                                            *)

Last(op, date, method, bnds, o, err, dates) ==
    [op |-> op, date |-> date, method |-> method, bnds |-> bnds,
     ret |-> o.ret, curve |-> o.curve, gen |-> o.gen, generated |-> o.generated,
     saved |-> o.saved, executed |-> o.executed, err |-> err, dates |-> dates]

NoOutcome == Outcome("", NotFound, NoCurveData, FALSE, FALSE, 0, {})

\* The requests of /api/yield-curve that are served concurrently (Flask's
\* development server runs each request in its own thread), and the record
\* of one: where its handler stands, its date, the curve_data it generated,
\* whether its save returned True, table yield_curves before and after that
\* save, its response.
Callers == {1, 2}

IdleCaller ==
    [pc |-> "idle", date |-> NoDate, gen |-> NoCurveData, saved |-> FALSE,
     before |-> {}, after |-> {}, ret |-> ""]

\* No call has run, or the latest one has returned.
NoCall == Last("init", NoDate, "", <<>>, NoOutcome, "none", <<>>)

Init ==
    /\ bonds = {}
    /\ yield_curves = {}
    /\ last = NoCall
    /\ prev_curves = {}
    /\ loads = 0
    /\ writes = 0
    /\ req = [c \in Callers |-> IdleCaller]

\* python bond_data.py <date>: BondDatabase.load_csv
LoadCsv ==
    \E file \in CsvFiles :
        /\ last = NoCall
        /\ loads < MaxLoads
        /\ bonds' = load_csv(bonds, file)
        /\ loads' = loads + 1
        /\ last' = Last("load_csv", NoDate, "", <<>>, NoOutcome, "none", <<>>)
        /\ prev_curves' = yield_curves
        /\ UNCHANGED <<req, yield_curves, writes>>

\* GET /api/yield-curve?date=...
ApiGetYieldCurve ==
    \E date \in BusinessDates \cup {NoDate} :
        \E bnds \in BondDataFor(bonds, date), fault \in Faults :
            LET o == api_get_yield_curve(yield_curves, bnds, date, fault)
            IN /\ last = NoCall
               /\ writes < MaxWrites
               /\ yield_curves' = o.table
               /\ writes' = IF o.saved THEN writes + 1 ELSE writes
               /\ last' = Last("api_get_yield_curve", date, "linear", bnds, o,
                               "none", <<>>)
               /\ prev_curves' = yield_curves
               /\ UNCHANGED <<req, bonds, loads>>

\* python yield_curve.py <date> --interpolation <method>
GenerateAndSave ==
    \E date \in BusinessDates :
        \E bnds \in BondDataFor(bonds, date), method \in Methods, fault \in Faults :
            LET o == generate_and_save_yield_curve_for_date(bonds, yield_curves, bnds,
                                                            date, method, fault)
            IN /\ last = NoCall
               /\ writes < MaxWrites
               /\ yield_curves' = o.table
               /\ writes' = IF o.saved THEN writes + 1 ELSE writes
               /\ last' = Last("generate_and_save", date, method, bnds, o, "none", <<>>)
               /\ prev_curves' = yield_curves
               /\ UNCHANGED <<req, bonds, loads>>

\* YieldCurve.generate_yield_curve called on its own
GenerateYieldCurve ==
    \E date \in BusinessDates :
        \E bnds \in BondDataFor(bonds, date), method \in Methods :
            LET g == generate_yield_curve(bnds, date, method)
            IN /\ last = NoCall
               /\ last' = Last("generate_yield_curve", date, method, bnds,
                               Outcome("", NotFound, g.curve_data, TRUE, FALSE, 0, {}),
                               g.err, <<>>)
               /\ prev_curves' = yield_curves
               /\ UNCHANGED <<req, bonds, yield_curves, loads, writes>>

\* YieldCurve.get_yield_curve called on its own
GetYieldCurve ==
    \E date \in BusinessDates :
        /\ last = NoCall
        /\ last' = Last("get_yield_curve", date, "", <<>>,
                        Outcome("", get_yield_curve(yield_curves, date), NoCurveData,
                                FALSE, FALSE, 0, {}),
                        "none", <<>>)
        /\ prev_curves' = yield_curves
        /\ UNCHANGED <<req, bonds, yield_curves, loads, writes>>

\* YieldCurve.get_available_curve_dates
GetAvailableCurveDates ==
    /\ last = NoCall
    /\ last' = Last("get_available_curve_dates", NoDate, "", <<>>, NoOutcome, "none",
                    get_available_curve_dates(yield_curves))
    /\ prev_curves' = yield_curves
    /\ UNCHANGED <<req, bonds, yield_curves, loads, writes>>

\* YieldCurve.check_bond_data_exists
CheckBondDataExists ==
    \E date \in BusinessDates :
        /\ last = NoCall
        /\ last' = Last("check_bond_data_exists", date, "", <<>>,
                        Outcome(IF check_bond_data_exists(bonds, date)
                                THEN "True" ELSE "False",
                                NotFound, NoCurveData, FALSE, FALSE, 0, {}),
                        "none", <<>>)
        /\ prev_curves' = yield_curves
        /\ UNCHANGED <<req, bonds, yield_curves, loads, writes>>

\* The call returns: the tables stay as it left them.
Return ==
    /\ last # NoCall
    /\ last' = NoCall
    /\ prev_curves' = yield_curves
    /\ UNCHANGED <<req, bonds, yield_curves, loads, writes>>

Next ==
    \/ LoadCsv
    \/ ApiGetYieldCurve
    \/ GenerateAndSave
    \/ GenerateYieldCurve
    \/ GetYieldCurve
    \/ GetAvailableCurveDates
    \/ CheckBondDataExists
    \/ Return

Spec == Init /\ [][Next]_vars

----------------------------------------------------------------------------
(* Concurrent requests of /api/yield-curve.  A handler is a sequence of    *)
(* database calls, each on a connection of its own: the look-up, the query *)
(* of generation, the save (one transaction), the read-back.  Between two  *)
(* of them another handler, or a load of table bonds, may run.             *)

\* Faulty variant of the handler's write: skipped when the date holds rows by
\* then.
handler_write_if_absent(curves, curve_data, fault) ==
    IF \E r \in curves : r.business_date = curve_data.business_date
    THEN [ok |-> TRUE, table |-> curves, executed |-> 0]
    ELSE save_yield_curve(curves, curve_data, fault)

\* yc.save_yield_curve(curve_data) of the handler
handler_write(curves, curve_data, fault) == save_yield_curve(curves, curve_data, fault)

\* A load of table bonds beside the running handlers.
RaceLoadCsv ==
    \E file \in CsvFiles :
        /\ loads < MaxLoads
        /\ bonds' = load_csv(bonds, file)
        /\ loads' = loads + 1
        /\ UNCHANGED <<yield_curves, last, prev_curves, writes, req>>

\* curve = yc.get_yield_curve(date); if not curve: ...
RaceLookup ==
    \E c \in Callers, date \in BusinessDates :
        LET curve == get_yield_curve(yield_curves, date)
        IN /\ req[c].pc = "idle"
           /\ req' = [req EXCEPT ![c] =
                         IF curve.found
                         THEN [@ EXCEPT !.pc = "done", !.date = date, !.ret = "200"]
                         ELSE [@ EXCEPT !.pc = "missed", !.date = date]]
           /\ UNCHANGED <<bonds, yield_curves, last, prev_curves, loads, writes>>

\* curve_data = yc.generate_yield_curve(date)
RaceGenerate ==
    \E c \in Callers :
        \E bnds \in BondDataFor(bonds, req[c].date) :
            LET g == generate_yield_curve(bnds, req[c].date, "linear")
            IN /\ req[c].pc = "missed"
               /\ req' = [req EXCEPT ![c] =
                             IF g.err # "none"
                             THEN [@ EXCEPT !.pc = "done",
                                            !.ret = "500 unable to generate"]
                             ELSE [@ EXCEPT !.pc = "generated", !.gen = g.curve_data]]
               /\ UNCHANGED <<bonds, yield_curves, last, prev_curves, loads, writes>>

\* if yc.save_yield_curve(curve_data): ... else: return 500
RaceSave ==
    \E c \in Callers, fault \in Faults :
        LET sv == handler_write(yield_curves, req[c].gen, fault)
        IN /\ req[c].pc = "generated"
           /\ yield_curves' = sv.table
           /\ req' = [req EXCEPT ![c] =
                         IF sv.ok
                         THEN [@ EXCEPT !.pc = "saved", !.saved = TRUE,
                                        !.before = yield_curves,
                                        !.after = sv.table]
                         ELSE [@ EXCEPT !.pc = "done",
                                        !.ret = "500 failed to generate"]]
           /\ UNCHANGED <<bonds, last, prev_curves, loads, writes>>

\* curve = yc.get_yield_curve(date); the response
RaceReadBack ==
    \E c \in Callers :
        /\ req[c].pc = "saved"
        /\ req' = [req EXCEPT ![c] =
                      [@ EXCEPT !.pc = "done",
                                !.ret = IF get_yield_curve(yield_curves, req[c].date).found
                                        THEN "200" ELSE "404 no data"]]
        /\ UNCHANGED <<bonds, yield_curves, last, prev_curves, loads, writes>>

NextRace ==
    \/ RaceLoadCsv
    \/ RaceLookup
    \/ RaceGenerate
    \/ RaceSave
    \/ RaceReadBack

SpecRace == Init /\ [][NextRace]_vars

----------------------------------------------------------------------------
(* generate_yield_curve as a function of the list of observations it is    *)
(* given: the list is drawn at the start from maturities in years that    *)
(* whole days cannot give (1, 2, 5 and 10 years among them), ascending as  *)
(* ORDER BY maturity returns them.                                         *)

PointMaturities ==
    << Rat(1, 8), Rat(1, 1), Rat(2, 1), Rat(5, 1), Rat(10, 1), Rat(30, 1) >>
PointYields == {Rat(21, 5), Rat(4, 1), Rat(19, 5), Rat(39, 10)}

RECURSIVE PointListsFrom(_)
PointListsFrom(i) ==
    IF i > Len(PointMaturities) THEN {<<>>}
    ELSE LET rest == PointListsFrom(i + 1)
         IN rest \cup {<<[years_to_maturity |-> PointMaturities[i], yield |-> y]>> \o r :
                          y \in PointYields, r \in rest}

InitPoints ==
    /\ bonds = {}
    /\ yield_curves = {}
    /\ \E bnds \in PointListsFrom(1) :
           last = Last("points", DateA, "", bnds, NoOutcome, "none", <<>>)
    /\ prev_curves = {}
    /\ loads = 0
    /\ writes = 0
    /\ req = [c \in Callers |-> IdleCaller]

\* generate_yield_curve from the statement after get_bond_data_for_curve on
GenerateFromPoints ==
    \E method \in Methods :
        LET g == generate_yield_curve(last.bnds, last.date, method)
        IN /\ last.op = "points"
           /\ last' = Last("generate_from_points", last.date, method, last.bnds,
                           Outcome("", NotFound, g.curve_data, TRUE, FALSE, 0, {}),
                           g.err, <<>>)
           /\ UNCHANGED <<bonds, yield_curves, prev_curves, loads, writes, req>>

NextPoints == GenerateFromPoints

SpecPoints == InitPoints /\ [][NextPoints]_vars

----------------------------------------------------------------------------
(* Properties.                                                             *)

RowsOf(table, date) == {r \in table : r.business_date = date}

\* The rows of table bonds the Observation Filter keeps for a date.
UsableRows(date) == {b \in SqlEligible(bonds, date) : UsableBond(b, date)}

ObservedYears(date) ==
    {YearsOfDays(calculate_days_to_maturity(date, b.maturity)) : b \in UsableRows(date)}

\* The rows a write of curve_data puts into yield_curves.
WrittenRows(gen) ==
    {CurveRow(gen.business_date, gen.interpolation_method, gen.curve_points[i]) :
        i \in 1..Len(gen.curve_points)}

WrittenDays(gen) == {gen.curve_points[i].maturity_days : i \in 1..Len(gen.curve_points)}

PointsOf(rowseq) ==
    [i \in 1..Len(rowseq) |->
        [maturity_days |-> rowseq[i].maturity_days,
         maturity_years |-> rowseq[i].maturity_years,
         yield_rate |-> rowseq[i].yield_rate]]

\* C1: when at least one curve point is persisted for the date, the
\* /api/yield-curve handler (get-or-generate) answers 200 with exactly the
\* persisted curve, does not run generation and leaves the rows of the date
\* as they were, whatever the observations of the date now are.
C1_CachePrecedence ==
    (/\ last.op = "api_get_yield_curve"
     /\ last.date # NoDate
     /\ RowsOf(prev_curves, last.date) # {})
    => /\ last.ret = "200"
       /\ last.curve = get_yield_curve(prev_curves, last.date)
       /\ ~last.generated
       /\ RowsOf(yield_curves, last.date) = RowsOf(prev_curves, last.date)

\* C1 witness: the handler answered from the store although generating from
\* the present observations would give other points, or fail.
C1_Witness ==
    /\ last.op = "api_get_yield_curve"
    /\ last.ret = "200"
    /\ ~last.generated
    /\ RowsOf(prev_curves, last.date) # {}
    /\ \E bnds \in BondDataFor(bonds, last.date) :
           LET g == generate_yield_curve(bnds, last.date, "linear")
           IN g.err # "none" \/ PointsOf(g.curve_data.curve_points) # last.curve.curve_points

\* C2 as stated: generate_and_save_yield_curve_for_date for a date that
\* holds a curve written with another method leaves the rows of the date
\* unchanged.
C2_Original ==
    (/\ last.op = "generate_and_save"
     /\ \E r \in RowsOf(prev_curves, last.date) :
            r.interpolation_method # last.method)
    => RowsOf(yield_curves, last.date) = RowsOf(prev_curves, last.date)

\* C2 amended: generate_and_save_yield_curve_for_date does not look for an
\* existing curve.  When it returns True every generated point is the
\* persisted row of its (date, maturity_days), tagged with the requested
\* method, and the rows of other keys are unchanged; when it returns False
\* the table is unchanged.
C2_Amended ==
    last.op = "generate_and_save"
    => IF last.ret = "True"
       THEN yield_curves =
                {r \in prev_curves : ~(r.business_date = last.date
                                       /\ r.maturity_days \in WrittenDays(last.gen))}
                    \cup WrittenRows(last.gen)
            /\ \A r \in WrittenRows(last.gen) :
                   r.interpolation_method = last.method /\ r.business_date = last.date
       ELSE yield_curves = prev_curves

\* C2 witness: a True return over a curve that was tagged with another
\* method, whose rows changed.
C2_Witness ==
    /\ last.op = "generate_and_save"
    /\ last.ret = "True"
    /\ \E r \in RowsOf(prev_curves, last.date) : r.interpolation_method # last.method
    /\ RowsOf(yield_curves, last.date) # RowsOf(prev_curves, last.date)

\* C3: with 0 or 1 usable observation for the date, generate_yield_curve
\* raises the insufficient-data error for every method, an unsupported one
\* included, and returns no curve.
C3_InsufficientData ==
    (last.op = "generate_yield_curve" /\ Cardinality(UsableRows(last.date)) < 2)
    => last.err = "insufficient" /\ last.gen = NoCurveData

\* C3 witness: exactly one usable observation and an unsupported method.
C3_Witness ==
    /\ last.op = "generate_yield_curve"
    /\ Cardinality(UsableRows(last.date)) = 1
    /\ last.method = "quadratic"
    /\ last.err = "insufficient"

\* C4: with 2 or more usable observations and method linear or cubic,
\* generate_yield_curve raises nothing and returns the curve of the date
\* under the requested method, also when the observations share their
\* maturity.
C4_SufficientData ==
    (/\ last.op = "generate_yield_curve"
     /\ Cardinality(UsableRows(last.date)) >= 2
     /\ last.method \in {"linear", "cubic"})
    => /\ last.err = "none"
       /\ last.gen.business_date = last.date
       /\ last.gen.interpolation_method = last.method
       /\ last.gen.raw_data.bond_count = Cardinality(UsableRows(last.date))

\* C4 witness: three usable observations of one maturity, no error.
C4_Witness ==
    /\ last.op = "generate_yield_curve"
    /\ Cardinality(UsableRows(last.date)) >= 2
    /\ Cardinality(ObservedYears(last.date)) = 1
    /\ last.method \in {"linear", "cubic"}
    /\ last.err = "none"

\* min and max of a non-empty set of rationals.
RMin(S) == CHOOSE x \in S : \A y \in S : RLe(x, y)
RMax(S) == CHOOSE x \in S : \A y \in S : RLe(y, x)

\* The standard tenors between the least and the greatest observed
\* maturity of the date, both included, ascending.
TenorsInObservedRange(date) ==
    LET lo == RMin(ObservedYears(date))
        hi == RMax(ObservedYears(date))
    IN SelectSeq(<< Rat(1, 4), Rat(1, 2), Rat(1, 1), Rat(2, 1), Rat(3, 1), Rat(5, 1),
                    Rat(7, 1), Rat(10, 1), Rat(15, 1), Rat(20, 1), Rat(25, 1),
                    Rat(30, 1) >>,
                 LAMBDA t : RLe(lo, t) /\ RLe(t, hi))

\* C5: the tenors of the points generate_yield_curve returns are exactly
\* the standard tenors t with min(observed) <= t <= max(observed), in
\* ascending order, and a successful write persists rows of those tenors
\* only.
C5_DomainClipping ==
    /\ (last.op = "generate_yield_curve" /\ last.err = "none")
       => [i \in 1..Len(last.gen.curve_points) |->
              last.gen.curve_points[i].maturity_years]
          = TenorsInObservedRange(last.date)
    /\ last.saved
       => \A r \in yield_curves \ prev_curves :
              \E i \in 1..Len(TenorsInObservedRange(last.date)) :
                  r.maturity_years = TenorsInObservedRange(last.date)[i]

\* C5 witness: the greatest observed maturity is exactly 20 years; the
\* 20-year tenor is returned and the 0.25-year and 25-year tenors are not.
C5_Witness ==
    /\ last.op = "generate_yield_curve"
    /\ last.err = "none"
    /\ RMax(ObservedYears(last.date)) = Rat(20, 1)
    /\ Cardinality(ObservedYears(last.date)) > 1
    /\ \E i \in 1..Len(last.gen.curve_points) :
           last.gen.curve_points[i].maturity_years = Rat(20, 1)
    /\ \A i \in 1..Len(last.gen.curve_points) :
           last.gen.curve_points[i].maturity_years \notin {Rat(1, 4), Rat(25, 1)}

\* C6: after save_yield_curve succeeds, each point of the new set is the
\* persisted row of its (date, maturity_days) with the new yield,
\* maturity_years and method, and each row the date held before at a
\* maturity_days outside the new set is still there unchanged.
C6_Upsert ==
    last.saved
    => /\ \A i \in 1..Len(last.gen.curve_points) :
              \E r \in yield_curves :
                  /\ r.business_date = last.date
                  /\ r.maturity_days = last.gen.curve_points[i].maturity_days
                  /\ r.maturity_years = last.gen.curve_points[i].maturity_years
                  /\ r.yield_rate = last.gen.curve_points[i].yield_rate
                  /\ r.interpolation_method = last.method
       /\ \A r \in RowsOf(prev_curves, last.date) :
              r.maturity_days \notin WrittenDays(last.gen) => r \in yield_curves

\* C6 witness: a write that replaced a row and left another row of the
\* date, outside the new set, in place.
C6_Witness ==
    /\ last.saved
    /\ \E r \in RowsOf(prev_curves, last.date) :
           r.maturity_days \in WrittenDays(last.gen) /\ r \notin yield_curves
    /\ \E r \in RowsOf(prev_curves, last.date) :
           r.maturity_days \notin WrittenDays(last.gen) /\ r \in yield_curves

\* C7 as stated: after a generate-and-write for a date, the persisted curve
\* of the date is exactly the points of that generation, no row of an
\* earlier generation left over.
C7_Original ==
    (last.saved /\ Len(last.gen.curve_points) > 0)
    => RowsOf(yield_curves, last.date) = WrittenRows(last.gen)

\* C8 as stated: a successful write followed at once by a read of the date
\* returns, ascending by maturity_days, the (maturity_days, maturity_years,
\* yield_rate) that were written, from any earlier state of the store.
C8_Original ==
    (last.saved /\ Len(last.gen.curve_points) > 0)
    => /\ get_yield_curve(yield_curves, last.date).found
       /\ get_yield_curve(yield_curves, last.date).curve_points
              = PointsOf(last.gen.curve_points)

\* C9: in every state, no two rows of yield_curves share (business_date,
\* maturity_days), and get_yield_curve returns the points of a date in
\* strictly ascending maturity_days.
C9_StoreKey ==
    /\ \A r1, r2 \in yield_curves :
           (r1.business_date = r2.business_date /\ r1.maturity_days = r2.maturity_days)
           => r1 = r2
    /\ \A date \in BusinessDates :
           LET pts == get_yield_curve(yield_curves, date).curve_points
           IN /\ Len(pts) = Cardinality(RowsOf(yield_curves, date))
              /\ \A i \in 1..Len(pts) - 1 :
                     pts[i].maturity_days < pts[i + 1].maturity_days

\* C9 witness: a second write for a date replaced a row of the same key by
\* one of another yield.
C9_Witness ==
    /\ last.saved
    /\ \E r \in prev_curves, w \in yield_curves :
           /\ r.business_date = w.business_date
           /\ r.maturity_days = w.maturity_days
           /\ r.yield_rate # w.yield_rate

RECURSIVE RSum(_)
RSum(S) ==
    IF S = {} THEN Rat(0, 1)
    ELSE LET b == CHOOSE x \in S : TRUE
         IN RAdd(b.yield.r, RSum(S \ {b}))

\* The arithmetic mean of the yields of the usable observations of a date
\* whose years_to_maturity is mat.
MeanYield(date, mat) ==
    LET group == {b \in UsableRows(date) :
                     YearsOfDays(calculate_days_to_maturity(date, b.maturity)) = mat}
    IN RDiv(RSum(group), Rat(Cardinality(group), 1))

\* C10 as stated: the yield of each deduplicated point is the arithmetic
\* mean of the k yields observed at its maturity, for every k >= 1.
C10_Original ==
    (last.op = "generate_yield_curve" /\ last.err = "none")
    => \A i \in 1..Len(last.gen.raw_data.points) :
           last.gen.raw_data.points[i].yld
               = MeanYield(last.date, last.gen.raw_data.points[i].mat)

\* The deduplicated points generate_yield_curve builds from the list the
\* Observation Filter returned, ascending.
KnotsOf(bnds) == sorted_points(dedup(bnds, 1, {}))

\* C11: with method cubic and 2 or 3 deduplicated points,
\* generate_yield_curve raises nothing and returns the tenors and the
\* yields that method linear returns on the same observations.
C11_CubicFallback ==
    (/\ last.op = "generate_yield_curve"
     /\ last.method = "cubic"
     /\ Len(KnotsOf(last.bnds)) \in {2, 3})
    => /\ last.err = "none"
       /\ last.gen.curve_points
              = generate_yield_curve(last.bnds, last.date, "linear").curve_data.curve_points

\* C11 witness: cubic requested with exactly 3 deduplicated points, a curve
\* of at least two points returned.
C11_Witness ==
    /\ last.op = "generate_yield_curve"
    /\ last.method = "cubic"
    /\ Len(KnotsOf(last.bnds)) = 3
    /\ last.err = "none"
    /\ Len(last.gen.curve_points) >= 2

\* C12: when the generation of a generate request (the /api/yield-curve
\* handler or generate_and_save_yield_curve_for_date) raises the
\* insufficient-data or the unsupported-method error, table yield_curves is
\* what it was before the request, for every date.
C12_ErrorsDoNotPersist ==
    (/\ last.op \in {"api_get_yield_curve", "generate_and_save"}
     /\ last.generated
     /\ generate_yield_curve(last.bnds, last.date, last.method).err # "none")
    => /\ yield_curves = prev_curves
       /\ ~last.saved
       /\ last.ret \in {"False", "500 unable to generate"}

\* C12 witness: an unsupported method asked for a date that has enough
\* observations and already holds a curve.
C12_Witness ==
    /\ last.op = "generate_and_save"
    /\ last.generated
    /\ generate_yield_curve(last.bnds, last.date, last.method).err = "unsupported"
    /\ RowsOf(prev_curves, last.date) # {}

\* C13 as stated: for a method outside {linear, cubic} generate_yield_curve
\* raises the unsupported-method error and returns no curve, for every
\* observation set.
C13_Original ==
    (last.op = "generate_yield_curve" /\ last.method \notin {"linear", "cubic"})
    => last.err = "unsupported" /\ last.gen = NoCurveData

\* C13 amended: for a method outside {linear, cubic} generate_yield_curve
\* returns no curve; it raises the unsupported-method error when the date
\* has 2 or more usable observations and the insufficient-data error, which
\* is tested first, when it has fewer.
C13_Amended ==
    (last.op = "generate_yield_curve" /\ last.method \notin {"linear", "cubic"})
    => /\ last.gen = NoCurveData
       /\ last.err = IF Cardinality(UsableRows(last.date)) >= 2
                     THEN "unsupported" ELSE "insufficient"

\* C13 witness: an unsupported method on a date with 2 or more usable
\* observations, on which method linear returns a curve with points.
C13_Witness ==
    /\ last.op = "generate_yield_curve"
    /\ last.method = "quadratic"
    /\ last.err = "unsupported"
    /\ Len(generate_yield_curve(last.bnds, last.date, "linear").curve_data.curve_points) > 0

\* C14 as stated: when the usable observations of the date collapse to
\* fewer than 2 deduplicated points, generate_yield_curve raises the
\* insufficient-data error, as it does for fewer than 2 observations.
C14_Original ==
    (/\ last.op = "generate_yield_curve"
     /\ last.method \in {"linear", "cubic"}
     /\ Len(KnotsOf(last.bnds)) < 2)
    => last.err = "insufficient" /\ last.gen = NoCurveData

\* The records of table bonds that are eligible for a date by the stated
\* rule, the ISIN prefix read exactly or in any letter case.
StartsWithGB(isin) == Len(isin) >= 2 /\ isin[1] = "G" /\ isin[2] = "B"
StartsWithGBAnyCase(isin) ==
    Len(isin) >= 2 /\ isin[1] \in {"G", "g"} /\ isin[2] \in {"B", "b"}

EligibleRecords(date, Prefix(_)) ==
    {b \in bonds : /\ b.business_date = date
                   /\ Prefix(b.isin)
                   /\ b.type \in {"Bills", "Conventional"}
                   /\ ~b.yield.null
                   /\ ~b.maturity.null
                   /\ b.maturity.v > date}

\* The list the Observation Filter returned holds exactly the records of E,
\* each once, with its days and a positive years_to_maturity.
FilterReturned(bnds, date, E) ==
    /\ Len(bnds) = Cardinality(E)
    /\ {bnds[i].isin : i \in 1..Len(bnds)} = {b.isin : b \in E}
    /\ \A i \in 1..Len(bnds) :
           /\ RLt(Rat(0, 1), bnds[i].years_to_maturity)
           /\ \E b \in E : /\ b.isin = bnds[i].isin
                            /\ bnds[i].yield = b.yield.r
                            /\ bnds[i].days_to_maturity = b.maturity.v - date

\* C15 as stated: an observation contributes to the curve of date d if and
\* only if its business_date is d, its isin starts with 'GB', its type is
\* Bills or Conventional, its yield and maturity are non-null and its
\* maturity lies strictly after d; every retained point has
\* years_to_maturity > 0.
C15_Original ==
    last.op = "generate_yield_curve"
    => FilterReturned(last.bnds, last.date, EligibleRecords(last.date, StartsWithGB))

\* C15 amended: as stated, except that the isin prefix is matched without
\* regard to letter case ('gb', 'Gb' and 'gB' are eligible too).
C15_Amended ==
    last.op = "generate_yield_curve"
    => FilterReturned(last.bnds, last.date,
                      EligibleRecords(last.date, StartsWithGBAnyCase))

\* C15 witness: the filter kept a record whose isin starts with 'gb' and
\* upper-case ones, and dropped a record of the date.
C15_Witness ==
    /\ last.op = "generate_yield_curve"
    /\ \E i \in 1..Len(last.bnds) : ~StartsWithGB(last.bnds[i].isin)
    /\ \E i \in 1..Len(last.bnds) : StartsWithGB(last.bnds[i].isin)
    /\ \E b \in bonds : /\ b.business_date = last.date
                         /\ \A i \in 1..Len(last.bnds) : last.bnds[i].isin # b.isin

\* C16 as stated: when the date holds no curve and generation and write
\* both succeed, the /api/yield-curve handler returns a curve equal to the
\* generated points and a read of the date that follows finds that curve,
\* also when no standard tenor lies in the observed maturity range.
C16_Original ==
    (/\ last.op = "api_get_yield_curve"
     /\ last.date # NoDate
     /\ RowsOf(prev_curves, last.date) = {}
     /\ last.generated
     /\ last.gen # NoCurveData
     /\ last.saved)
    => /\ last.ret = "200"
       /\ last.curve.found
       /\ last.curve.curve_points = PointsOf(last.gen.curve_points)
       /\ get_yield_curve(yield_curves, last.date) = last.curve

\* The latest call ran save_yield_curve and it returned False.
WriteFailed ==
    /\ last.op \in {"api_get_yield_curve", "generate_and_save"}
    /\ last.generated
    /\ last.gen # NoCurveData
    /\ ~last.saved

\* C17 as stated: when the write fails after some but not all points of the
\* batch were upserted, the points upserted before the failure remain
\* persisted, and the write reports failure.
C17_Original ==
    (/\ WriteFailed
     /\ 0 < last.executed
     /\ last.executed < Len(last.gen.curve_points))
    => /\ \A i \in 1..last.executed :
              CurveRow(last.gen.business_date, last.gen.interpolation_method,
                       last.gen.curve_points[i]) \in yield_curves
       /\ last.ret \in {"False", "500 failed to generate"}

\* C17 amended: when the write fails, at whatever point of the batch, no
\* point of the batch is persisted: table yield_curves is what it was before
\* the write, and the write reports failure.
C17_Amended ==
    WriteFailed
    => /\ yield_curves = prev_curves
       /\ last.ret \in {"False", "500 failed to generate"}

\* C17 witness: a write that failed after some but not all of its inserts
\* had run, none of whose rows is in the table.
C17_Witness ==
    /\ WriteFailed
    /\ 0 < last.executed
    /\ last.executed < Len(last.gen.curve_points)
    /\ \A r \in WrittenRows(last.gen) : r \notin yield_curves

\* Caller c of the concurrent handlers passed the not-found check and its
\* save returned True.
HasSaved(c) == req[c].saved

C19_Original ==
    (/\ last.op = "generate_yield_curve"
     /\ last.method = "linear"
     /\ last.err = "none")
    => \A bnds \in BondDataFor(bonds, last.date) :
           generate_yield_curve(bnds, last.date, "linear").curve_data.curve_points
               = last.gen.curve_points

\* C20: in every state get_available_curve_dates returns its dates in
\* strictly descending order, so each once, and a date is in the list if and
\* only if get_yield_curve of the date returns a curve; the list a call
\* returned is that list.
C20_ListAgreesWithRead ==
    LET dates == get_available_curve_dates(yield_curves)
    IN /\ \A i \in 1..Len(dates) - 1 : dates[i] > dates[i + 1]
       /\ \A date \in BusinessDates :
              (\E i \in 1..Len(dates) : dates[i] = date)
              <=> get_yield_curve(yield_curves, date).found
       /\ \A i \in 1..Len(dates) : dates[i] \in BusinessDates
       /\ last.op = "get_available_curve_dates" => last.dates = dates

\* C20 witness: a call that listed both business dates, the later first,
\* while one of them holds several rows.
C20_Witness ==
    /\ last.op = "get_available_curve_dates"
    /\ last.dates = <<DateB, DateA>>
    /\ Cardinality(RowsOf(yield_curves, DateA)) > 1
    /\ get_yield_curve(yield_curves, DateB).found

\* The yield at tenor t on the segment between the consecutive points p and
\* q: y_i + (y_{i+1} - y_i) * (t - x_i) / (x_{i+1} - x_i).
OnSegment(p, q, t) ==
    RAdd(p.yld, RDiv(RMul(RSub(q.yld, p.yld), RSub(t, p.mat)), RSub(q.mat, p.mat)))

\* C21: with method linear the yield returned at each sampled tenor t is
\* the value at t of the segment between the consecutive deduplicated
\* points that enclose t (of either segment when t is a point); from the
\* points (1, 4.20), (2, 4.00), (5, 3.80), (10, 3.90) the yield at tenor 3
\* is 59/15 = 3.9333... and the tenors 0.25 and 0.5 are absent.
C21_LinearValues ==
    (/\ last.op = "generate_from_points"
     /\ last.method = "linear"
     /\ last.err = "none")
    => LET knots == last.gen.raw_data.points
           pts == last.gen.curve_points
       IN /\ \A k \in 1..Len(pts) :
                 /\ \E i \in 1..Len(knots) - 1 :
                        /\ RLe(knots[i].mat, pts[k].maturity_years)
                        /\ RLe(pts[k].maturity_years, knots[i + 1].mat)
                 /\ \A i \in 1..Len(knots) - 1 :
                        (/\ RLe(knots[i].mat, pts[k].maturity_years)
                         /\ RLe(pts[k].maturity_years, knots[i + 1].mat))
                        => pts[k].yield_rate
                               = OnSegment(knots[i], knots[i + 1], pts[k].maturity_years)
          /\ knots = << [mat |-> Rat(1, 1), yld |-> Rat(21, 5)],
                        [mat |-> Rat(2, 1), yld |-> Rat(4, 1)],
                        [mat |-> Rat(5, 1), yld |-> Rat(19, 5)],
                        [mat |-> Rat(10, 1), yld |-> Rat(39, 10)] >>
             => /\ \E k \in 1..Len(pts) :
                       /\ pts[k].maturity_years = Rat(3, 1)
                       /\ pts[k].yield_rate = Rat(59, 15)
                /\ \A k \in 1..Len(pts) :
                       pts[k].maturity_years \notin {Rat(1, 4), Rat(1, 2)}

\* C21 witness: the curve of the points (1, 4.20), (2, 4.00), (5, 3.80),
\* (10, 3.90) with method linear, of tenors 1, 2, 3, 5, 7 and 10.
C21_Witness ==
    /\ last.op = "generate_from_points"
    /\ last.method = "linear"
    /\ last.gen.raw_data.points
           = << [mat |-> Rat(1, 1), yld |-> Rat(21, 5)],
                [mat |-> Rat(2, 1), yld |-> Rat(4, 1)],
                [mat |-> Rat(5, 1), yld |-> Rat(19, 5)],
                [mat |-> Rat(10, 1), yld |-> Rat(39, 10)] >>
    /\ Len(last.gen.curve_points) = 6
    /\ last.gen.curve_points[3].yield_rate = Rat(59, 15)

\* C22: when save_yield_curve fails inside the /api/yield-curve handler, it
\* returns False (the handler takes the branch of a False return, not its
\* except clause) and the response is an error without a curve.
C22_StorageFailureReported ==
    (last.op = "api_get_yield_curve" /\ WriteFailed)
    => /\ last.ret = "500 failed to generate"
       /\ ~last.curve.found
       /\ last.curve = NotFound

\* C22 witness: a generated curve with points, a save that a storage fault
\* made fail, the 500 response.
C22_Witness ==
    /\ last.op = "api_get_yield_curve"
    /\ WriteFailed
    /\ Len(last.gen.curve_points) > 0
    /\ \A i \in 1..Len(last.gen.curve_points) : ~IsNaN(last.gen.curve_points[i].yield_rate)
    /\ last.ret = "500 failed to generate"

\* C23: the interpolation_method of the curve_data generate_yield_curve
\* returns is the method string of the call, and the rows a successful write
\* of that curve_data leaves in yield_curves carry it, also when cubic was
\* requested with fewer than 4 deduplicated points.
C23_TagIsRequestedMethod ==
    /\ (/\ last.op \in {"generate_yield_curve", "generate_and_save",
                        "api_get_yield_curve"}
        /\ last.generated
        /\ last.gen # NoCurveData)
       => last.gen.interpolation_method = last.method
    /\ (/\ last.op \in {"generate_and_save", "api_get_yield_curve"}
        /\ last.saved)
       => \A r \in RowsOf(yield_curves, last.date) :
              r.maturity_days \in WrittenDays(last.gen)
              => r.interpolation_method = last.method

\* C23 witness: cubic requested on 2 or 3 deduplicated points, the curve
\* has points and was saved.
C23_Witness ==
    /\ last.op = "generate_and_save"
    /\ last.method = "cubic"
    /\ last.saved
    /\ Len(last.gen.raw_data.points) \in {2, 3}
    /\ Len(last.gen.curve_points) > 0
    /\ \E r \in RowsOf(yield_curves, last.date) :
           /\ r.maturity_days \in WrittenDays(last.gen)
           /\ r.interpolation_method = "cubic"

\* C24: the maturity_days of a curve point is its tenor in years times
\* 365.25, truncated toward zero: 91, 182, 365, 730, 1095, 1826, 2556, 3652,
\* 5478, 7305, 9131, 10957 for the twelve standard tenors, so no two points
\* of one generation have the same maturity_days.
C24_DaysByTruncation ==
    /\ [i \in 1..Len(standard_maturities) |-> maturity_days_of(standard_maturities[i])]
           = << 91, 182, 365, 730, 1095, 1826, 2556, 3652, 5478, 7305, 9131, 10957 >>
    /\ (last.op = "generate_from_points" /\ last.err = "none")
       => LET pts == last.gen.curve_points
          IN /\ \A k \in 1..Len(pts) :
                    pts[k].maturity_days
                        = (pts[k].maturity_years.n * 1461) \div (pts[k].maturity_years.d * 4)
             /\ \A j, k \in 1..Len(pts) :
                    j # k => pts[j].maturity_days # pts[k].maturity_days

\* C24 witness: a generated curve with a point at each of the twelve
\* standard tenors.
C24_Witness ==
    /\ last.op = "generate_from_points"
    /\ last.err = "none"
    /\ Len(last.gen.curve_points) = Len(standard_maturities)
    /\ last.gen.curve_points[2].maturity_days = 182
    /\ last.gen.curve_points[12].maturity_days = 10957

\* C25 as stated: after a successful write of at least one point for a
\* date, get_yield_curve of the date reports as interpolation_method the
\* method of that write, also when an earlier write with another method
\* covered other tenors.
C25_Original ==
    (/\ last.op \in {"generate_and_save", "api_get_yield_curve"}
     /\ last.saved
     /\ Len(last.gen.curve_points) > 0)
    => LET curve == get_yield_curve(yield_curves, last.date)
       IN /\ curve.found
          /\ curve.interpolation_method = last.method

\* C26 as stated: the deduplicated points are the same for every order in
\* which the observations of equal maturity are processed, one point per
\* distinct maturity, ascending by maturity.
C26_Original ==
    (last.op = "generate_yield_curve" /\ Len(last.bnds) > 0)
    => LET knots == KnotsOf(last.bnds)
       IN /\ \A bnds \in BondDataFor(bonds, last.date) : KnotsOf(bnds) = knots
          /\ \A i \in 1..Len(knots) - 1 : RLt(knots[i].mat, knots[i + 1].mat)
          /\ {knots[i].mat : i \in 1..Len(knots)}
                 = {last.bnds[i].years_to_maturity : i \in 1..Len(last.bnds)}

\* C27 as stated: check_bond_data_exists(date) is true if and only if
\* get_bond_data_for_curve(date) returns at least one observation.
C27_Original ==
    last.op = "check_bond_data_exists"
    => ((last.ret = "True") <=> (UsableRows(last.date) # {}))

\* C27 amended: check_bond_data_exists(date) is true if and only if table
\* bonds holds a record of the date with an isin starting with GB in any
\* letter case, type Bills or Conventional and non-null yield and maturity,
\* whatever its maturity; so it is true whenever get_bond_data_for_curve
\* returns an observation, and it is also true for a date whose only such
\* records mature on or before the date.
C27_Amended ==
    last.op = "check_bond_data_exists"
    => /\ (last.ret = "True")
           <=> \E b \in bonds : /\ b.business_date = last.date
                                /\ StartsWithGBAnyCase(b.isin)
                                /\ b.type \in {"Bills", "Conventional"}
                                /\ ~b.yield.null
                                /\ ~b.maturity.null
       /\ (UsableRows(last.date) # {}) => last.ret = "True"
       /\ \A bnds \in BondDataFor(bonds, last.date) :
              Len(bnds) = Cardinality(UsableRows(last.date))

\* C27 witness: the probe answers True for a date whose only matching
\* record matures on the date, so that the filter returns nothing.
C27_Witness ==
    /\ last.op = "check_bond_data_exists"
    /\ last.ret = "True"
    /\ UsableRows(last.date) = {}
    /\ \E b \in SqlEligible(bonds, last.date) : b.maturity.v <= last.date

\* C28: generate_and_save_yield_curve_for_date returns True only if this
\* call persisted at least one curve point of the date, tagged with the
\* requested method, and whenever it returns False table yield_curves is
\* exactly as it was before the call (also with 2 or more observations
\* whose maturity range holds no standard tenor).
C28_ReturnMatchesStore ==
    last.op = "generate_and_save"
    => /\ last.ret \in {"True", "False"}
       /\ last.ret = "True"
          => /\ Len(last.gen.curve_points) > 0
             /\ WrittenRows(last.gen) \subseteq yield_curves
             /\ \E r \in WrittenRows(last.gen) :
                    /\ r.business_date = last.date
                    /\ r.interpolation_method = last.method
       /\ last.ret = "False" => yield_curves = prev_curves

\* C28 witness: 2 observations whose maturity range holds no standard
\* tenor, on a store that holds rows: False, the store as before.
C28_Witness ==
    /\ last.op = "generate_and_save"
    /\ last.ret = "False"
    /\ Len(last.bnds) >= 2
    /\ last.err = "none"
    /\ last.generated
    /\ last.gen # NoCurveData
    /\ Len(last.gen.curve_points) = 0
    /\ yield_curves # {}
    /\ yield_curves = prev_curves

\* C29: in every state every row of yield_curves has maturity_years among
\* the twelve standard tenors 0.25, 0.5, 1, 2, 3, 5, 7, 10, 15, 20, 25, 30
\* and maturity_days equal to maturity_years * 365.25 truncated, so a date
\* holds at most 12 rows and the order by maturity_days is the order by
\* maturity_years.
C29_RowsAreStandardTenors ==
    /\ \A r \in yield_curves :
           /\ r.maturity_years
                  \in {Rat(1, 4), Rat(1, 2), Rat(1, 1), Rat(2, 1), Rat(3, 1), Rat(5, 1),
                       Rat(7, 1), Rat(10, 1), Rat(15, 1), Rat(20, 1), Rat(25, 1),
                       Rat(30, 1)}
           /\ r.maturity_days = (r.maturity_years.n * 1461) \div (r.maturity_years.d * 4)
    /\ \A date \in BusinessDates :
           /\ Cardinality(RowsOf(yield_curves, date)) <= 12
           /\ \A r1, r2 \in RowsOf(yield_curves, date) :
                  (r1.maturity_days < r2.maturity_days)
                  <=> RLt(r1.maturity_years, r2.maturity_years)

\* C29 witness: a date holds the rows of two generations, the later one of
\* other tenors than the earlier.
C29_Witness ==
    /\ last.op \in {"generate_and_save", "api_get_yield_curve"}
    /\ last.saved
    /\ Len(last.gen.curve_points) > 0
    /\ RowsOf(prev_curves, last.date) # {}
    /\ \E r \in RowsOf(yield_curves, last.date) : r \notin WrittenRows(last.gen)
    /\ \E r \in WrittenRows(last.gen) : r \notin prev_curves
    /\ Cardinality(RowsOf(yield_curves, last.date)) >= 7

\* One step of a call: the operations that only read leave both tables as
\* they were; the operations that write curve rows leave table bonds and
\* the curve rows of every other date as they were.
C30_Step ==
    /\ last'.op \in {"generate_yield_curve", "generate_from_points", "get_yield_curve",
                     "get_available_curve_dates", "check_bond_data_exists"}
       => bonds' = bonds /\ yield_curves' = yield_curves
    /\ last'.op \in {"generate_and_save", "api_get_yield_curve"}
       => /\ bonds' = bonds
          /\ \A d \in BusinessDates \ {last'.date} :
                 RowsOf(yield_curves', d) = RowsOf(yield_curves, d)

\* C30: a write or generation for a business date never inserts, replaces
\* or removes a curve row of another date, and generate_yield_curve,
\* get_yield_curve, get_available_curve_dates and check_bond_data_exists
\* leave table yield_curves and table bonds unchanged.
C30_IsolationAndReadOnly == [][C30_Step]_vars

\* C30 witness: a write for one date has put rows beside the rows of the
\* other date, at a tenor the other date holds too; the other date's rows
\* are as before.
C30_Witness ==
    /\ last.op \in {"generate_and_save", "api_get_yield_curve"}
    /\ last.saved
    /\ Len(last.gen.curve_points) > 0
    /\ \E d \in BusinessDates \ {last.date} :
           /\ RowsOf(yield_curves, d) = RowsOf(prev_curves, d)
           /\ \E r \in RowsOf(yield_curves, d) : r.maturity_days \in WrittenDays(last.gen)

====
